---- MODULE Spec2Model ----
(***************************************************************************)
(* Model of server.js: the per-client fixed-window rate limiter, the TTL   *)
(* cache, the odds fetcher and the POST /api/predictions handler.          *)
(*                                                                         *)
(* Node runs JavaScript on one thread: a handler runs without interruption *)
(* until it awaits real I/O.  Each action below is one such uninterrupted  *)
(* run: the arrival of a request (middleware and the handler up to its     *)
(* first pending await) and the completion of each awaited call.           *)
(***************************************************************************)
EXTENDS Integers, Sequences, FiniteSets, TLC

VARIABLES
  now,             \* Date.now()
  ticks,           \* clock advances so far
  requestTracker,  \* the limiter's Map: client key -> {count, resetTime}
  cache,           \* the cache's Map: key -> {data, timestamp}
  req,             \* the requests being handled, one record per slot
  lastReq,         \* what the limiter saw and decided in the step just taken, if it ran
  win,             \* per client, the window its requests fall in, counted from outside
  lastSet,         \* per cache key, the arguments and time of the latest setCache call
  pure             \* input and results of the functions checked on their own

vars == <<now, ticks, requestTracker, cache, req, lastReq, win, lastSet, pure>>

(***************************************************************************)
(* Bounds of the model                                                     *)
(***************************************************************************)
MaxTicks == 3          \* clock advances explored around the limiter window
MaxCacheTicks == 2     \* clock advances explored around the cache lifetime
MaxSlots == 2          \* requests in flight at once
MaxGames == 1          \* games in a provider body
MaxPerWindow == 12     \* requests one client makes inside one window
MaxBodyLen == 3        \* tokens between the braces of an oracle answer
MaxOddsLen == 11       \* games in an odds list given to the formatter
MaxMarkets == 2        \* markets a bookmaker lists
MaxOutcomes == 2       \* outcomes a market lists

(***************************************************************************)
(* Program constants                                                       *)
(***************************************************************************)
hourInMs == 60 * 60 * 1000
maxRequests == 10
msPerMinute == 60000
CACHE_TTL == 5 * 60 * 1000

Slots == 1 .. MaxSlots
ClientKeys == {"ip1", "ip2"}


(***************************************************************************)
(* JavaScript values                                                       *)
(***************************************************************************)
Undefined == "undefined"

\* The sport field of the request body: an enumerated code, an unknown
\* code, a name every object inherits from Object.prototype, or missing.
SportInputs == {"nba", "xyz", "constructor", Undefined}

sportMap ==
  [s \in {"nba", "nhl", "cbb", "nfl", "mlb"} |->
     CASE s = "nba" -> "basketball_nba"
       [] s = "nhl" -> "icehockey_nhl"
       [] s = "cbb" -> "basketball_ncaab"
       [] s = "nfl" -> "americanfootball_nfl"
       [] s = "mlb" -> "baseball_mlb"]

\* Property names that a plain object literal inherits.
ObjectPrototypeProps ==
  {"constructor", "toString", "valueOf", "hasOwnProperty", "isPrototypeOf",
   "propertyIsEnumerable", "toLocaleString", "__proto__"}

\* sportMap[sport]: own properties first, then the prototype chain.
SportLookup(sport) ==
  IF sport \in DOMAIN sportMap THEN sportMap[sport]
  ELSE IF sport \in ObjectPrototypeProps THEN "[inherited]"
  ELSE Undefined

\* sport.toUpperCase()
ToUpperCase(s) ==
  CASE s = "nba" -> "NBA"
    [] s = "nhl" -> "NHL"
    [] s = "cbb" -> "CBB"
    [] s = "nfl" -> "NFL"
    [] s = "mlb" -> "MLB"
    [] s = "xyz" -> "XYZ"
    [] s = "constructor" -> "CONSTRUCTOR"
    [] OTHER -> "TypeError"

\* A parsed JSON value as the handler sees it: null, a falsy scalar (0,
\* false, ""), an object that is not an array, or an array of n games.
JsonNull == [t |-> "null", n |-> 0]
JsonZero == [t |-> "zero", n |-> 0]
JsonObject == [t |-> "object", n |-> 0]
JsonArray(n) == [t |-> "array", n |-> n]

ProviderBodies == {JsonNull, JsonZero, JsonObject} \cup {JsonArray(n) : n \in 0 .. MaxGames}

\* JavaScript truthiness of such a value (an array, even empty, is truthy).
Truthy(v) == v.t \in {"object", "array"}

Min(a, b) == IF a < b THEN a ELSE b

\* Faulty variant: the remaining minutes rounded down.
Floor(x, d) == x \div d

\* Math.ceil(x / d) for d > 0
Ceil(x, d) == (x + d - 1) \div d

(***************************************************************************)
(* Rate limiter: requestTracker is a Map, here a function whose domain is  *)
(* the set of keys present.                                                *)
(***************************************************************************)
\* Faulty variant: the quota test lets one request too many through.
RateLimitOffByOne(tracker, ip, t) ==
  IF ip \notin DOMAIN tracker
  THEN [permit |-> TRUE, minutesLeft |-> 0,
        tracker |-> [k \in DOMAIN tracker \cup {ip} |->
                       IF k = ip THEN [count |-> 1, resetTime |-> t + hourInMs]
                       ELSE tracker[k]]]
  ELSE IF t > tracker[ip].resetTime
  THEN [permit |-> TRUE, minutesLeft |-> 0,
        tracker |-> [tracker EXCEPT ![ip] = [count |-> 1, resetTime |-> t + hourInMs]]]
  ELSE IF tracker[ip].count > maxRequests
  THEN [permit |-> FALSE,
        minutesLeft |-> Ceil(tracker[ip].resetTime - t, msPerMinute),
        tracker |-> tracker]
  ELSE [permit |-> TRUE, minutesLeft |-> 0,
        tracker |-> [tracker EXCEPT ![ip].count = @ + 1]]

\* Faulty variant: a fresh window restarts the count but keeps the old end.
RateLimitStaleWindow(tracker, ip, t) ==
  IF ip \notin DOMAIN tracker
  THEN [permit |-> TRUE, minutesLeft |-> 0,
        tracker |-> [k \in DOMAIN tracker \cup {ip} |->
                       IF k = ip THEN [count |-> 1, resetTime |-> t + hourInMs]
                       ELSE tracker[k]]]
  ELSE IF t > tracker[ip].resetTime
  THEN [permit |-> TRUE, minutesLeft |-> 0,
        tracker |-> [tracker EXCEPT ![ip] = [count |-> 1, resetTime |-> @.resetTime]]]
  ELSE IF tracker[ip].count >= maxRequests
  THEN [permit |-> FALSE,
        minutesLeft |-> Ceil(tracker[ip].resetTime - t, msPerMinute),
        tracker |-> tracker]
  ELSE [permit |-> TRUE, minutesLeft |-> 0,
        tracker |-> [tracker EXCEPT ![ip].count = @ + 1]]

\* Faulty variant: a fresh window moves the end but counts on from the old
\* count.
RateLimitKeepsCount(tracker, ip, t) ==
  IF ip \notin DOMAIN tracker
  THEN [permit |-> TRUE, minutesLeft |-> 0,
        tracker |-> [k \in DOMAIN tracker \cup {ip} |->
                       IF k = ip THEN [count |-> 1, resetTime |-> t + hourInMs]
                       ELSE tracker[k]]]
  ELSE IF t > tracker[ip].resetTime
  THEN [permit |-> TRUE, minutesLeft |-> 0,
        tracker |-> [tracker EXCEPT ![ip] = [count |-> Min(@.count + 1, maxRequests),
                                             resetTime |-> t + hourInMs]]]
  ELSE IF tracker[ip].count >= maxRequests
  THEN [permit |-> FALSE,
        minutesLeft |-> Ceil(tracker[ip].resetTime - t, msPerMinute),
        tracker |-> tracker]
  ELSE [permit |-> TRUE, minutesLeft |-> 0,
        tracker |-> [tracker EXCEPT ![ip].count = @ + 1]]

\* The limiter's verdict and the tracker it leaves, for a request of key ip
\* at time t.
\* Faulty variant: a denied request pushes the end of the window out.
RateLimitDenyExtends(tracker, ip, t) ==
  IF ip \notin DOMAIN tracker
  THEN [permit |-> TRUE, minutesLeft |-> 0,
        tracker |-> [k \in DOMAIN tracker \cup {ip} |->
                       IF k = ip THEN [count |-> 1, resetTime |-> t + hourInMs]
                       ELSE tracker[k]]]
  ELSE IF t > tracker[ip].resetTime
  THEN [permit |-> TRUE, minutesLeft |-> 0,
        tracker |-> [tracker EXCEPT ![ip] = [count |-> 1, resetTime |-> t + hourInMs]]]
  ELSE IF tracker[ip].count >= maxRequests
  THEN [permit |-> FALSE,
        minutesLeft |-> Ceil(tracker[ip].resetTime - t, msPerMinute),
        tracker |-> [tracker EXCEPT ![ip].resetTime = t + hourInMs]]
  ELSE [permit |-> TRUE, minutesLeft |-> 0,
        tracker |-> [tracker EXCEPT ![ip].count = @ + 1]]

\* Faulty variant: an entry whose window is over is dropped when its client
\* is seen again, and only the request after that opens a new window.
RateLimitEvicts(tracker, ip, t) ==
  IF ip \notin DOMAIN tracker
  THEN [permit |-> TRUE, minutesLeft |-> 0,
        tracker |-> [k \in DOMAIN tracker \cup {ip} |->
                       IF k = ip THEN [count |-> 1, resetTime |-> t + hourInMs]
                       ELSE tracker[k]]]
  ELSE IF t > tracker[ip].resetTime
  THEN [permit |-> TRUE, minutesLeft |-> 0,
        tracker |-> [k \in DOMAIN tracker \ {ip} |-> tracker[k]]]
  ELSE IF tracker[ip].count >= maxRequests
  THEN [permit |-> FALSE,
        minutesLeft |-> Ceil(tracker[ip].resetTime - t, msPerMinute),
        tracker |-> tracker]
  ELSE [permit |-> TRUE, minutesLeft |-> 0,
        tracker |-> [tracker EXCEPT ![ip].count = @ + 1]]

\* Faulty variant: the count of a request let through inside an open window
\* is not written back.
RateLimitLostIncrement(tracker, ip, t) ==
  LET fresh == [count |-> 1, resetTime |-> t + hourInMs]
  IN IF ip \notin DOMAIN tracker
     THEN [permit |-> TRUE, minutesLeft |-> 0,
           tracker |-> [k \in DOMAIN tracker \cup {ip} |->
                          IF k = ip THEN fresh ELSE tracker[k]]]
     ELSE IF t > tracker[ip].resetTime
     THEN [permit |-> TRUE, minutesLeft |-> 0, tracker |-> [tracker EXCEPT ![ip] = fresh]]
     ELSE IF tracker[ip].count >= maxRequests
     THEN [permit |-> FALSE,
           minutesLeft |-> Ceil(tracker[ip].resetTime - t, msPerMinute),
           tracker |-> tracker]
     ELSE [permit |-> TRUE, minutesLeft |-> 0, tracker |-> tracker]

RateLimit(tracker, ip, t) ==
  IF ip \notin DOMAIN tracker
  THEN [permit |-> TRUE, minutesLeft |-> 0,
        tracker |-> [k \in DOMAIN tracker \cup {ip} |->
                       IF k = ip THEN [count |-> 1, resetTime |-> t + hourInMs]
                       ELSE tracker[k]]]
  ELSE IF t > tracker[ip].resetTime
  THEN [permit |-> TRUE, minutesLeft |-> 0,
        tracker |-> [tracker EXCEPT ![ip] = [count |-> 1, resetTime |-> t + hourInMs]]]
  ELSE IF tracker[ip].count >= maxRequests
  THEN [permit |-> FALSE,
        minutesLeft |-> Ceil(tracker[ip].resetTime - t, msPerMinute),
        tracker |-> tracker]
  ELSE [permit |-> TRUE, minutesLeft |-> 0,
        tracker |-> [tracker EXCEPT ![ip].count = @ + 1]]

(***************************************************************************)
(* TTL cache: cache is a Map from key to {data, timestamp}.                *)
(***************************************************************************)
CacheKey(sport) == <<"odds_", sport>>

\* Faulty variant: an entry exactly as old as the lifetime is still served.
getCachedInclusive(c, key, t) ==
  IF key \in DOMAIN c /\ t - c[key].timestamp <= CACHE_TTL
  THEN c[key].data
  ELSE JsonNull

\* getCached returns the data or null.
getCached(c, key, t) ==
  IF key \in DOMAIN c /\ t - c[key].timestamp < CACHE_TTL
  THEN c[key].data
  ELSE JsonNull

setCache(c, key, data, t) ==
  [k \in DOMAIN c \cup {key} |->
     IF k = key THEN [data |-> data, timestamp |-> t] ELSE c[k]]

(***************************************************************************)
(* Oracle text and its extraction.  A text is a sequence of tokens: the    *)
(* fence marker, the language tag, whitespace, braces, prose, and the      *)
(* members of the answer object.                                           *)
(***************************************************************************)
Fence == "fence"          \* three backticks
LangTag == "json"
Space == " "
Prose == "prose"
Quote == "quote"          \* the double quote that opens or closes a string
FieldTokens == {"games:0", "games:1", "games:2", "games:text", "lastUpdated", "sport", "sport:other"}

RECURSIVE TrimStart(_)
TrimStart(s) == IF s # <<>> /\ Head(s) = Space THEN TrimStart(Tail(s)) ELSE s

RECURSIVE TrimEnd(_)
TrimEnd(s) ==
  IF s # <<>> /\ s[Len(s)] = Space THEN TrimEnd(SubSeq(s, 1, Len(s) - 1)) ELSE s

\* String.prototype.trim
Trim(s) == TrimEnd(TrimStart(s))

\* jsonText.startsWith(fence)
StartsWithFence(s) == s # <<>> /\ Head(s) = Fence

\* replace(/<fence>json\s*/g, '')
RECURSIVE StripTaggedFences(_)
StripTaggedFences(s) ==
  IF s = <<>> THEN <<>>
  ELSE IF Len(s) >= 2 /\ s[1] = Fence /\ s[2] = LangTag
       THEN StripTaggedFences(TrimStart(SubSeq(s, 3, Len(s))))
       ELSE <<Head(s)>> \o StripTaggedFences(Tail(s))

\* replace(/<fence>\s*/g, '')
RECURSIVE StripFences(_)
StripFences(s) ==
  IF s = <<>> THEN <<>>
  ELSE IF Head(s) = Fence THEN StripFences(TrimStart(Tail(s)))
       ELSE <<Head(s)>> \o StripFences(Tail(s))

\* lines 233-236
Unfence(textContent) ==
  LET jsonText == Trim(textContent)
  IN IF StartsWithFence(jsonText) THEN StripFences(StripTaggedFences(jsonText))
     ELSE jsonText

\* jsonText.match(/\{[\s\S]*\}/): from the first { to the last }, or no match
NoMatch == <<"no match">>
MatchBraces(s) ==
  LET opens == {i \in 1 .. Len(s) : s[i] = "{"}
      closes == {i \in 1 .. Len(s) : s[i] = "}"}
  IN IF opens = {} THEN NoMatch
     ELSE LET first == CHOOSE i \in opens : \A j \in opens : i <= j
              after == {i \in closes : i > first}
          IN IF after = {} THEN NoMatch
             ELSE SubSeq(s, first, CHOOSE i \in after : \A j \in after : j <= i)

\* JSON.parse of a span that starts with { and ends with }: the members
\* between the braces, or a SyntaxError when anything else stands there.
SyntaxError ==
  [ok |-> FALSE, games |-> -1, lastUpdated |-> FALSE, sport |-> "absent",
   strings |-> <<>>]

\* The members between the braces, read left to right: whitespace is
\* skipped, a member of the answer object is noted, a string runs from its
\* opening quote to the next quote and keeps everything in between.
RECURSIVE ScanMembers(_, _)
ScanMembers(s, acc) ==
  IF s = <<>> THEN acc
  ELSE IF Head(s) = Space THEN ScanMembers(Tail(s), acc)
  ELSE IF Head(s) \in FieldTokens
  THEN ScanMembers(Tail(s), [acc EXCEPT !.fields = @ \cup {Head(s)}])
  ELSE IF Head(s) = Quote
  THEN LET rest == Tail(s)
           closing == {i \in 1 .. Len(rest) : rest[i] = Quote}
       IN IF closing = {} THEN [acc EXCEPT !.ok = FALSE]
          ELSE LET c == CHOOSE i \in closing : \A j \in closing : i <= j
               IN ScanMembers(SubSeq(rest, c + 1, Len(rest)),
                              [acc EXCEPT !.strings = Append(@, SubSeq(rest, 1, c - 1))])
  ELSE [acc EXCEPT !.ok = FALSE]

JSONParse(span) ==
  LET inner == SubSeq(span, 2, Len(span) - 1)
      scan == ScanMembers(inner, [ok |-> TRUE, fields |-> {}, strings |-> <<>>])
      members == scan.fields
  IN IF ~ scan.ok THEN SyntaxError
     ELSE [ok |-> TRUE,
           strings |-> scan.strings,
           games |-> IF "games:2" \in members THEN 2
                     ELSE IF "games:1" \in members THEN 1
                     ELSE IF "games:0" \in members THEN 0
                     ELSE IF "games:text" \in members THEN -2
                     ELSE -1,
           lastUpdated |-> "lastUpdated" \in members,
           sport |-> IF "sport" \in members THEN "echo"
                     ELSE IF "sport:other" \in members THEN "other"
                     ELSE "absent"]

\* Lines 233-241 as a function of the text: the parsed object, or why
\* there is none.
NoJsonFound ==
  [ok |-> FALSE, games |-> -1, lastUpdated |-> FALSE, sport |-> "no match",
   strings |-> <<>>]
Extract(textContent) ==
  LET jsonMatch == MatchBraces(Unfence(textContent))
  IN IF jsonMatch = NoMatch THEN NoJsonFound ELSE JSONParse(jsonMatch)

\* What the oracle may answer: plain, fenced (with and without the tag),
\* wrapped in prose, empty, without braces, malformed, and answers that
\* leave out members of the requested shape.
OracleTexts ==
  { <<"{", "games:2", "lastUpdated", "sport", "}">>,
    <<Fence, LangTag, Space, "{", "games:1", "lastUpdated", "sport", "}", Space, Fence>>,
    <<Space, Fence, Space, "{", "games:1", "lastUpdated", "sport", "}", Fence, Space>>,
    <<Prose, "{", "games:1", "lastUpdated", "sport:other", "}", Prose>>,
    <<"{", "games:0", "lastUpdated", "sport", "}">>,
    <<"{", "games:1", "}">>,
    <<"{", "games:text", "lastUpdated", "sport", "}">>,
    <<"{", "lastUpdated", "sport", "}">>,
    <<"{", "games:1", Prose, "}">>,
    <<Prose, "}", "{">>,
    <<Prose>>,
    <<>> }

(***************************************************************************)
(* Game formatter.  A value that may be undefined is a sequence of length  *)
(* at most one: <<>> is undefined, <<v>> is the value v.  A game of the    *)
(* provider is {home_team, away_team, commence_time, bookmakers}, a        *)
(* bookmaker {markets}, a market {key, outcomes}, an outcome {name, point, *)
(* price}.                                                                 *)
(***************************************************************************)
limit == 10

NotAvailable == [t |-> "N/A", n |-> 0]
Number(x) == [t |-> "number", n |-> x]

\* list?.[0]
First(list) ==
  IF list = <<>> THEN <<>>
  ELSE IF Len(list[1]) = 0 THEN <<>> ELSE <<list[1][1]>>

\* markets?.find(m => m.key === key)
FindMarket(markets, key) ==
  IF markets = <<>> THEN <<>>
  ELSE LET hits == {i \in 1 .. Len(markets[1]) : markets[1][i].key = key}
       IN IF hits = {} THEN <<>>
          ELSE <<markets[1][CHOOSE i \in hits : \A j \in hits : i <= j]>>

\* outcomes?.find(o => o.name === team)
FindOutcome(outcomes, team) ==
  IF outcomes = <<>> THEN <<>>
  ELSE LET hits == {i \in 1 .. Len(outcomes[1]) : outcomes[1][i].name = team}
       IN IF hits = {} THEN <<>>
          ELSE <<outcomes[1][CHOOSE i \in hits : \A j \in hits : i <= j]>>

MarketsOf(game) ==
  LET bookmaker == First(game.bookmakers)
  IN IF bookmaker = <<>> THEN <<>> ELSE bookmaker[1].markets

OutcomesOf(market) == IF market = <<>> THEN <<>> ELSE market[1].outcomes
PointOf(outcome) == IF outcome = <<>> THEN <<>> ELSE outcome[1].point
PriceOf(outcome) == IF outcome = <<>> THEN <<>> ELSE outcome[1].price

\* The operands of || in lines 171-174.
SpreadOf(game) == PointOf(First(OutcomesOf(FindMarket(MarketsOf(game), "spreads"))))
TotalOf(game) == PointOf(First(OutcomesOf(FindMarket(MarketsOf(game), "totals"))))
MoneylineOf(game, team) ==
  PriceOf(FindOutcome(OutcomesOf(FindMarket(MarketsOf(game), "h2h")), team))

\* value || 'N/A': undefined and 0 are falsy.
OrNotAvailable(value) ==
  IF value = <<>> THEN NotAvailable
  ELSE IF value[1] = 0 THEN NotAvailable ELSE Number(value[1])

FormatGame(game) ==
  [homeTeam |-> game.home_team,
   awayTeam |-> game.away_team,
   gameTime |-> game.commence_time,
   spread |-> OrNotAvailable(SpreadOf(game)),
   total |-> OrNotAvailable(TotalOf(game)),
   moneylineHome |-> OrNotAvailable(MoneylineOf(game, game.home_team)),
   moneylineAway |-> OrNotAvailable(MoneylineOf(game, game.away_team))]

\* Faulty variant: the list is cut one game short.
FormatGamesCutsShort(oddsData) ==
  LET kept == SubSeq(oddsData, 1, Min(Len(oddsData), limit - 1))
  IN [i \in 1 .. Len(kept) |-> FormatGame(kept[i])]

\* oddsData.slice(0, 10).map(...)
FormatGames(oddsData) ==
  LET kept == SubSeq(oddsData, 1, Min(Len(oddsData), limit))
  IN [i \in 1 .. Len(kept) |-> FormatGame(kept[i])]

(***************************************************************************)
(* One request: where its handler stands, what it was sent, what it has    *)
(* done to the outside, and its response.                                  *)
(***************************************************************************)
NoData ==
  [ok |-> FALSE, games |-> -1, lastUpdated |-> FALSE, sport |-> "absent",
   strings |-> <<>>]

Idle ==
  [pc |-> "idle", ip |-> "", sport |-> "", permitted |-> FALSE,
   status |-> 0, responses |-> 0, errmsg |-> "", max |-> 0, minutes |-> 0,
   games |-> -1, lastUpdated |-> FALSE, sportOut |-> "absent",
   gets |-> 0, oracle |-> 0, sent |-> 0, inserts |-> 0, saved |-> 0,
   cacheReads |-> 0, cacheWrites |-> 0,
   odds |-> JsonNull, hasOdds |-> FALSE,
   data |-> NoData, idx |-> 0,
   fault |-> ""]        \* what went wrong outside the handler, if anything

\* res.status(500).json({ error: err.message }) in the catch block
Fail(s, msg) ==
  [s EXCEPT !.pc = "done", !.status = 500, !.responses = @ + 1, !.errmsg = msg]

\* res.json(body): status 200
Success(s, games, lastUpdated, sportOut) ==
  [s EXCEPT !.pc = "done", !.status = 200, !.responses = @ + 1,
            !.games = games, !.lastUpdated = lastUpdated, !.sportOut = sportOut]

\* res.status(429).json(...)
Deny(s, minutesLeft) ==
  [s EXCEPT !.pc = "done", !.status = 429, !.responses = @ + 1,
            !.errmsg = "Rate limit exceeded", !.max = maxRequests,
            !.minutes = minutesLeft]

\* Faulty variant: only a falsy result is taken for "no games"; an empty
\* list goes on to the oracle.
AfterOddsIgnoresEmpty(s, oddsData) ==
  LET s1 == [s EXCEPT !.odds = oddsData, !.hasOdds = TRUE]
  IN IF ~ Truthy(oddsData)
     THEN IF ToUpperCase(s.sport) = "TypeError"
          THEN Fail(s1, "TypeError")
          ELSE Success(s1, 0, TRUE, ToUpperCase(s.sport))
     ELSE IF oddsData.t # "array"
     THEN Fail(s1, "TypeError")
     ELSE [s1 EXCEPT !.pc = "oracle", !.oracle = @ + 1,
                     !.sent = Min(oddsData.n, 10)]

\* The handler from the return of fetchOddsData to the oracle call
\* (lines 153-222).
AfterOdds(s, oddsData) ==
  LET s1 == [s EXCEPT !.odds = oddsData, !.hasOdds = TRUE]
  IN IF ~ Truthy(oddsData) \/ (oddsData.t = "array" /\ oddsData.n = 0)
     THEN IF ToUpperCase(s.sport) = "TypeError"
          THEN Fail(s1, "TypeError")
          ELSE Success(s1, 0, TRUE, ToUpperCase(s.sport))
     ELSE IF oddsData.t # "array"
     THEN Fail(s1, "TypeError")                \* oddsData.slice is not a function
     ELSE [s1 EXCEPT !.pc = "oracle", !.oracle = @ + 1,
                     !.sent = Min(oddsData.n, 10)]

\* How many times for (const game of data.games) iterates.
GamesLen(g) == IF g = -2 THEN 1 ELSE g

\* The loop over data.games and the final res.json(data) (lines 244-248):
\* either the next insert is issued or the answer is sent.
SaveLoop(s) ==
  IF s.idx > GamesLen(s.data.games)
  THEN Success(s, s.data.games, s.data.lastUpdated,
               IF s.data.sport = "echo" THEN ToUpperCase(s.sport)
               ELSE IF s.data.sport = "other" THEN "OTHER" ELSE "absent")
  ELSE [s EXCEPT !.pc = "save", !.inserts = @ + 1]

\* What is wrong with an oracle text, told from the text itself: it has no
\* opening brace followed by a closing one, or the span the handler takes
\* from it is not JSON.
TextFault(text) ==
  IF ~ \E i, j \in 1 .. Len(text) : i < j /\ text[i] = "{" /\ text[j] = "}"
  THEN "nospan"
  ELSE IF ~ JSONParse(MatchBraces(Unfence(text))).ok THEN "syntax"
  ELSE ""

\* Faulty variant: a span that does not parse is answered as "no games"
\* instead of an error.
AfterOracleLenient(s, textContent) ==
  LET jsonMatch == MatchBraces(Unfence(textContent))
  IN IF jsonMatch = NoMatch THEN Fail(s, "No JSON found in response")
     ELSE LET data == JSONParse(jsonMatch)
          IN IF ~ data.ok THEN Success(s, 0, TRUE, ToUpperCase(s.sport))
             ELSE IF data.games = -1 THEN Fail(s, "TypeError")
             ELSE SaveLoop([s EXCEPT !.data = data, !.idx = 1])

\* Lines 224-248: the oracle's text is extracted, parsed and saved.
AfterOracle(s, textContent) ==
  LET jsonMatch == MatchBraces(Unfence(textContent))
  IN IF jsonMatch = NoMatch THEN Fail(s, "No JSON found in response")
     ELSE LET data == JSONParse(jsonMatch)
          IN IF ~ data.ok THEN Fail(s, "SyntaxError")
             ELSE IF data.games = -1 THEN Fail(s, "TypeError")  \* not iterable
             ELSE SaveLoop([s EXCEPT !.data = data, !.idx = 1])

\* fetchOddsData up to its first pending await (lines 115-136), continued
\* by the handler when the cache answers.
HandlerStart(s, c, t) ==
  IF SportLookup(s.sport) = Undefined THEN Fail(s, "Invalid sport")
  ELSE LET cached == getCached(c, CacheKey(s.sport), t)
           s1 == [s EXCEPT !.cacheReads = @ + 1]
       IN IF Truthy(cached) THEN AfterOdds(s1, cached)
          ELSE [s1 EXCEPT !.pc = "fetch", !.gets = @ + 1]

(***************************************************************************)
(* Observers used to state the properties                                  *)
(***************************************************************************)
NoReq ==
  [ran |-> FALSE, r |-> 1, ip |-> "", had |-> FALSE, preCount |-> 0, preReset |-> 0,
   permit |-> FALSE, minutesLeft |-> 0]

\* The window a request of client ip at time t falls in, and its rank n in
\* it: a client's first request opens its window number k = 1 of one hour,
\* a request later than the end of the window opens the next one.
WindowOf(w, ip, t) ==
  IF ip \notin DOMAIN w \/ t > w[ip].start + hourInMs
  THEN [start |-> t, n |-> 1, k |-> IF ip \in DOMAIN w THEN w[ip].k + 1 ELSE 1]
  ELSE [start |-> w[ip].start, n |-> w[ip].n + 1, k |-> w[ip].k]

\* The window record with p, the number of requests of the window that
\* were let through, this one included when permit holds.
PermitsOf(w, old, ip, permit) ==
  [start |-> w.start, n |-> w.n, k |-> w.k,
   p |-> (IF w.n = 1 THEN 0 ELSE old[ip].p) + (IF permit THEN 1 ELSE 0)]

NoPure ==
  [stage |-> "none", doc |-> <<>>, tagged |-> FALSE,
   fenced |-> NoJsonFound, plain |-> NoJsonFound,
   odds |-> <<>>, formatted |-> <<>>]

(***************************************************************************)
(* Initial state and actions                                               *)
(***************************************************************************)
Init ==
  /\ now = 0
  /\ ticks = 0
  /\ requestTracker = [k \in {} |-> 0]
  /\ cache = [k \in {} |-> 0]
  /\ req = [r \in Slots |-> Idle]
  /\ lastReq = NoReq
  /\ win = [k \in {} |-> 0]
  /\ lastSet = [k \in {} |-> 0]
  /\ pure = NoPure

\* Time passes.
Tick(d, max) ==
  /\ ticks < max
  /\ now' = now + d
  /\ ticks' = ticks + 1
  /\ lastReq' = NoReq
  /\ UNCHANGED <<requestTracker, cache, req, win, lastSet, pure>>

\* POST /api/predictions arrives from client ip with body { sport }:
\* rateLimitMiddleware, then the handler up to its first pending await.
\* Faulty variant: the handler starts before the limiter has decided.
ArriveHandlerFirst(S, ip, sport) ==
  LET free == {r \in S : req[r].pc \in {"idle", "done"}}
      lim == RateLimit(requestTracker, ip, now)
      w == WindowOf(win, ip, now)
      s0 == [Idle EXCEPT !.ip = ip, !.sport = sport, !.permitted = lim.permit]
      slot == CHOOSE x \in free : \A y \in free : x <= y
  IN /\ free # {}
     /\ w.n <= MaxPerWindow
     /\ requestTracker' = lim.tracker
     /\ lastReq' = [ran |-> TRUE, r |-> slot, ip |-> ip, had |-> ip \in DOMAIN requestTracker,
                    preCount |-> IF ip \in DOMAIN requestTracker
                                 THEN requestTracker[ip].count ELSE 0,
                    preReset |-> IF ip \in DOMAIN requestTracker
                                 THEN requestTracker[ip].resetTime ELSE 0,
                    permit |-> lim.permit, minutesLeft |-> lim.minutesLeft]
     /\ win' = [k \in DOMAIN win \cup {ip} |->
                  IF k = ip THEN PermitsOf(w, win, ip, lim.permit) ELSE win[k]]
     /\ req' = [req EXCEPT ![slot] = IF lim.permit
                                      THEN HandlerStart(s0, cache, now)
                                      ELSE Deny(HandlerStart(s0, cache, now), lim.minutesLeft)]
     /\ UNCHANGED <<now, ticks, cache, lastSet, pure>>

Arrive(S, ip, sport) ==
  LET free == {r \in S : req[r].pc \in {"idle", "done"}}
      lim == RateLimit(requestTracker, ip, now)
      w == WindowOf(win, ip, now)
      s0 == [Idle EXCEPT !.ip = ip, !.sport = sport, !.permitted = lim.permit]
      slot == CHOOSE x \in free : \A y \in free : x <= y
  IN /\ free # {}
     /\ w.n <= MaxPerWindow
     /\ requestTracker' = lim.tracker
     /\ lastReq' = [ran |-> TRUE, r |-> slot, ip |-> ip, had |-> ip \in DOMAIN requestTracker,
                    preCount |-> IF ip \in DOMAIN requestTracker
                                 THEN requestTracker[ip].count ELSE 0,
                    preReset |-> IF ip \in DOMAIN requestTracker
                                 THEN requestTracker[ip].resetTime ELSE 0,
                    permit |-> lim.permit, minutesLeft |-> lim.minutesLeft]
     /\ win' = [k \in DOMAIN win \cup {ip} |->
                  IF k = ip THEN PermitsOf(w, win, ip, lim.permit) ELSE win[k]]
     /\ req' = [req EXCEPT ![slot] = IF lim.permit
                                      THEN HandlerStart(s0, cache, now)
                                      ELSE Deny(s0, lim.minutesLeft)]
     /\ UNCHANGED <<now, ticks, cache, lastSet, pure>>

\* Faulty variant: a provider answer that is not a success is tried once
\* more.
FetchResolvesRetries(r, outcome) ==
  /\ req[r].pc = "fetch"
  /\ req' = [req EXCEPT ![r] =
               CASE outcome = "ok" -> [@ EXCEPT !.pc = "json"]
                 [] outcome = "status" ->
                      IF @.gets < 2 THEN [@ EXCEPT !.gets = @ + 1]
                      ELSE Fail([@ EXCEPT !.fault = "status"], "Odds API error")
                 [] outcome = "network" ->
                      Fail([@ EXCEPT !.fault = "network"], "fetch failed")]
  /\ lastReq' = NoReq
  /\ UNCHANGED <<now, ticks, requestTracker, cache, win, lastSet, pure>>

\* await fetch(url) settles: a response (ok or not) or a network failure.
FetchResolves(r, outcome) ==
  /\ req[r].pc = "fetch"
  /\ req' = [req EXCEPT ![r] =
               CASE outcome = "ok" -> [@ EXCEPT !.pc = "json"]
                 [] outcome = "status" ->
                      Fail([@ EXCEPT !.fault = "status"], "Odds API error")
                 [] outcome = "network" ->
                      Fail([@ EXCEPT !.fault = "network"], "fetch failed")]
  /\ lastReq' = NoReq
  /\ UNCHANGED <<now, ticks, requestTracker, cache, win, lastSet, pure>>

\* await response.json() rejects: the body is not JSON.
JsonRejects(r) ==
  /\ req[r].pc = "json"
  /\ req' = [req EXCEPT ![r] = Fail([@ EXCEPT !.fault = "body"], "SyntaxError")]
  /\ lastReq' = NoReq
  /\ UNCHANGED <<now, ticks, requestTracker, cache, win, lastSet, pure>>

\* await response.json() resolves with data (lines 139-143), and the
\* handler goes on.
JsonResolves(r, data) ==
  /\ req[r].pc = "json"
  /\ IF data.t = "null"
     THEN /\ req' = [req EXCEPT ![r] = Fail(@, "TypeError")]   \* data.length
          /\ UNCHANGED <<cache, lastSet>>
     ELSE /\ cache' = setCache(cache, CacheKey(req[r].sport), data, now)
          /\ lastSet' = [k \in DOMAIN lastSet \cup {CacheKey(req[r].sport)} |->
                           IF k = CacheKey(req[r].sport)
                           THEN [value |-> data, at |-> now] ELSE lastSet[k]]
          /\ req' = [req EXCEPT ![r] =
                       AfterOdds([@ EXCEPT !.cacheWrites = @ + 1], data)]
  /\ lastReq' = NoReq
  /\ UNCHANGED <<now, ticks, requestTracker, win, pure>>

\* await anthropic.messages.create(...) rejects.
OracleFails(r) ==
  /\ req[r].pc = "oracle"
  /\ req' = [req EXCEPT ![r] = Fail([@ EXCEPT !.fault = "oracle"], "oracle error")]
  /\ lastReq' = NoReq
  /\ UNCHANGED <<now, ticks, requestTracker, cache, win, lastSet, pure>>

\* await anthropic.messages.create(...) resolves with text.
OracleAnswers(r, textContent) ==
  /\ req[r].pc = "oracle"
  /\ req' = [req EXCEPT ![r] =
               AfterOracle([@ EXCEPT !.fault = TextFault(textContent)], textContent)]
  /\ lastReq' = NoReq
  /\ UNCHANGED <<now, ticks, requestTracker, cache, win, lastSet, pure>>

\* Faulty variant: savePrediction lets a failed insert escape, and the
\* handler's catch block answers 500.
SaveResolvesRethrows(r, ok) ==
  /\ req[r].pc = "save"
  /\ req' = [req EXCEPT ![r] =
               IF ok THEN SaveLoop([@ EXCEPT !.saved = @ + 1, !.idx = @ + 1])
               ELSE Fail(@, "insert failed")]
  /\ lastReq' = NoReq
  /\ UNCHANGED <<now, ticks, requestTracker, cache, win, lastSet, pure>>

\* await pool.query(...) in savePrediction settles; a failure is caught
\* and logged (lines 107-111), and the loop goes on.
SaveResolves(r, ok) ==
  /\ req[r].pc = "save"
  /\ req' = [req EXCEPT ![r] =
               SaveLoop([@ EXCEPT !.saved = IF ok THEN @ + 1 ELSE @,
                                  !.idx = @ + 1])]
  /\ lastReq' = NoReq
  /\ UNCHANGED <<now, ticks, requestTracker, cache, win, lastSet, pure>>

\* The completion of an awaited call of request r.
Settle(r) ==
  \/ \E outcome \in {"ok", "status", "network"} : FetchResolves(r, outcome)
  \/ JsonRejects(r)
  \/ \E data \in ProviderBodies : JsonResolves(r, data)
  \/ OracleFails(r)
  \/ \E textContent \in OracleTexts : OracleAnswers(r, textContent)
  \/ \E ok \in BOOLEAN : SaveResolves(r, ok)

\* One client, one request at a time, every sport input, every answer of
\* the provider, the oracle and the database; the clock moves around the
\* cache lifetime.
Next ==
  \/ \E d \in {1, CACHE_TTL - 1} : Tick(d, MaxCacheTicks)
  \/ \E sport \in SportInputs : Arrive({1}, "ip1", sport)
  \/ Settle(1)

Spec == Init /\ [][Next]_vars

\* The limiter alone: two clients whose requests name no known sport and so
\* end at once; the clock moves around the window length.
NextLimiter ==
  \/ \E d \in {1, hourInMs - 1} : Tick(d, MaxTicks)
  \/ \E ip \in ClientKeys : Arrive({1}, ip, "xyz")

SpecLimiter == Init /\ [][NextLimiter]_vars

\* Requests of one client for one sport handled concurrently: a request
\* arrives while earlier ones wait for the provider; the provider answers
\* with an empty list of games, or fails.
SettleConcurrent(r) ==
  \/ \E outcome \in {"ok", "network"} : FetchResolves(r, outcome)
  \/ JsonResolves(r, JsonArray(0))

NextConcurrent ==
  \/ \E d \in {1, CACHE_TTL - 1, hourInMs - 1} : Tick(d, MaxTicks)
  \/ Arrive(Slots, "ip1", "nba")
  \/ \E r \in Slots : SettleConcurrent(r)

SpecConcurrent == Init /\ [][NextConcurrent]_vars

(***************************************************************************)
(* The extraction on its own: a well-formed JSON object is extracted from  *)
(* its bare text and from the same text inside a code fence.               *)
(***************************************************************************)
DocTokens == {"games:1", "lastUpdated", Quote, Fence, LangTag, "{", "}", Space}

RECURSIVE SeqsUpTo(_, _)
SeqsUpTo(T, n) ==
  IF n = 0 THEN {<<>>}
  ELSE LET shorter == SeqsUpTo(T, n - 1)
       IN shorter \cup {Append(q, t) : q \in shorter, t \in T}

\* The well-formed objects: braces around members and strings.
JsonDocs ==
  {doc \in {<<"{">> \o body \o <<"}">> : body \in SeqsUpTo(DocTokens, MaxBodyLen)} :
     JSONParse(doc).ok}

\* The object inside a code fence, with or without the language tag.
Wrap(doc, tagged) ==
  <<Fence>> \o (IF tagged THEN <<LangTag>> ELSE <<>>) \o <<Space>> \o doc
            \o <<Space, Fence>>

InitExtract ==
  /\ now = 0
  /\ ticks = 0
  /\ requestTracker = [k \in {} |-> 0]
  /\ cache = [k \in {} |-> 0]
  /\ req = [r \in Slots |-> Idle]
  /\ lastReq = NoReq
  /\ win = [k \in {} |-> 0]
  /\ lastSet = [k \in {} |-> 0]
  /\ pure \in {[NoPure EXCEPT !.stage = "new", !.doc = doc] : doc \in JsonDocs}

ExtractFenced(tagged) ==
  /\ pure.stage \in {"new", "plain"}
  /\ pure' = [pure EXCEPT !.stage = IF @ = "new" THEN "fenced" ELSE "both",
                          !.tagged = tagged,
                          !.fenced = Extract(Wrap(pure.doc, tagged))]
  /\ UNCHANGED <<now, ticks, requestTracker, cache, req, lastReq, win, lastSet>>

ExtractPlain ==
  /\ pure.stage \in {"new", "fenced"}
  /\ pure' = [pure EXCEPT !.stage = IF @ = "new" THEN "plain" ELSE "both",
                          !.plain = Extract(pure.doc)]
  /\ UNCHANGED <<now, ticks, requestTracker, cache, req, lastReq, win, lastSet>>

NextExtract ==
  \/ \E tagged \in BOOLEAN : ExtractFenced(tagged)
  \/ ExtractPlain

SpecExtract == InitExtract /\ [][NextExtract]_vars

(***************************************************************************)
(* The formatter on its own: every odds list is formatted once.            *)
(***************************************************************************)
Teams == {"Lakers", "Celtics"}
Numbers == {-7, 0}
Optional(S) == {<<>>} \cup {<<x>> : x \in S}

\* An outcome names a team and carries a point, a price, both or neither.
Outcomes ==
  {[name |-> team, point |-> <<>>, price |-> <<>>] : team \in Teams}
    \cup {[name |-> team, point |-> <<x>>, price |-> <<>>] : team \in Teams, x \in Numbers}
    \cup {[name |-> team, point |-> <<>>, price |-> <<x>>] : team \in Teams, x \in Numbers}
    \cup {[name |-> team, point |-> <<x>>, price |-> <<x>>] : team \in Teams, x \in Numbers}

MarketKeys == {"spreads", "totals", "h2h"}

\* The markets of one bookmaker: any keys in any order, each market with
\* the bookmaker's list of outcomes.
MarketLists ==
  {[i \in 1 .. Len(keys) |-> [key |-> keys[i], outcomes |-> outcomes]] :
     keys \in SeqsUpTo(MarketKeys, MaxMarkets),
     outcomes \in Optional(SeqsUpTo(Outcomes, MaxOutcomes))}

Bookmakers == {[markets |-> markets] : markets \in Optional(MarketLists)}

Game(home, away, bookmakers) ==
  [home_team |-> home, away_team |-> away, commence_time |-> "2025-01-01T00:00:00Z",
   bookmakers |-> bookmakers]

\* Games with every shape of the nested record, and two plain games that
\* tell the places of a list apart.
DetailedGames ==
  {Game("Lakers", "Celtics", bookmakers) :
     bookmakers \in {<<>>, << <<>> >>} \cup {<< <<b>> >> : b \in Bookmakers}}
PlainGames == {Game("Lakers", "Celtics", <<>>), Game("Celtics", "Lakers", <<>>)}

OddsLists ==
  {<<game>> : game \in DetailedGames} \cup (SeqsUpTo(PlainGames, MaxOddsLen) \ {<<>>})

InitFormat ==
  /\ now = 0
  /\ ticks = 0
  /\ requestTracker = [k \in {} |-> 0]
  /\ cache = [k \in {} |-> 0]
  /\ req = [r \in Slots |-> Idle]
  /\ lastReq = NoReq
  /\ win = [k \in {} |-> 0]
  /\ lastSet = [k \in {} |-> 0]
  /\ pure \in {[NoPure EXCEPT !.stage = "odds", !.odds = odds] : odds \in OddsLists}

Format ==
  /\ pure.stage = "odds"
  /\ pure' = [pure EXCEPT !.stage = "formatted", !.formatted = FormatGames(pure.odds)]
  /\ UNCHANGED <<now, ticks, requestTracker, cache, req, lastReq, win, lastSet>>

NextFormat == Format

SpecFormat == InitFormat /\ [][NextFormat]_vars

TypeOK ==
  /\ now \in Nat
  /\ ticks \in 0 .. MaxTicks + MaxCacheTicks
  /\ \A r \in Slots : req[r].responses \in 0 .. 1

(***************************************************************************)
(* Properties of the rate limiter, checked under SpecLimiter.  lastReq     *)
(* describes the request handled in the step that led to the state, so     *)
(* now is its arrival time and requestTracker is what the limiter left.    *)
(***************************************************************************)

\* C1: within one window of a client (opened by its first request, holding
\* every later request made no later than one hour after it), the 1st to
\* the 10th request are permitted and the 11th and every later one is
\* denied with status 429.
C1_QuotaPerWindow ==
  lastReq.ran =>
    /\ lastReq.permit <=> win[lastReq.ip].n <= 10
    /\ lastReq.permit <=> req[lastReq.r].permitted
    /\ lastReq.permit <=> req[lastReq.r].status # 429

C1_Witness ==
  /\ lastReq.ran
  /\ win[lastReq.ip].n = 11
  /\ now = win[lastReq.ip].start + hourInMs
  /\ req[lastReq.r].status = 429

\* C2 as stated: a request of a tracked client arriving at now >= resetTime
\* is permitted and opens a fresh window (count 1, resetTime now + 1 hour).
C2_FreshWindowAtOrAfterReset ==
  lastReq.ran /\ lastReq.had /\ now >= lastReq.preReset =>
    /\ lastReq.permit
    /\ requestTracker[lastReq.ip] = [count |-> 1, resetTime |-> now + hourInMs]

\* C2 as amended: a request of a tracked client arriving at now > resetTime,
\* whatever its count, is permitted and opens a fresh window (count 1,
\* resetTime now + 1 hour); a request at exactly now = resetTime still
\* belongs to the old window: it is counted in it, or denied when the count
\* is 10, and resetTime stays.
C2_FreshWindowAfterReset ==
  /\ lastReq.ran /\ lastReq.had /\ now > lastReq.preReset =>
       /\ lastReq.permit
       /\ requestTracker[lastReq.ip] = [count |-> 1, resetTime |-> now + hourInMs]
  /\ lastReq.ran /\ lastReq.had /\ now = lastReq.preReset =>
       /\ lastReq.permit <=> lastReq.preCount < 10
       /\ requestTracker[lastReq.ip].resetTime = lastReq.preReset
       /\ requestTracker[lastReq.ip].count =
            IF lastReq.preCount < 10 THEN lastReq.preCount + 1 ELSE 10

C2_Witness ==
  /\ lastReq.ran /\ lastReq.had
  /\ now > lastReq.preReset
  /\ lastReq.preCount = 10
  /\ requestTracker[lastReq.ip].count = 1

\* C3: a client that has used up its quota is permitted again by its first
\* request made after resetTime, which opens a new window (count 1,
\* resetTime one hour after that request); in every window after its first
\* the client again gets exactly 10 permits.
C3_QuotaComesBack ==
  /\ lastReq.ran /\ lastReq.had /\ lastReq.preCount = 10 /\ now > lastReq.preReset =>
       /\ req[lastReq.r].status # 429
       /\ requestTracker[lastReq.ip].count = 1
       /\ requestTracker[lastReq.ip].resetTime = now + hourInMs
  /\ lastReq.ran /\ win[lastReq.ip].k >= 2 =>
       (req[lastReq.r].status = 429 <=> win[lastReq.ip].n > 10)

C3_Witness ==
  /\ lastReq.ran
  /\ win[lastReq.ip].k = 2
  /\ win[lastReq.ip].n = 11
  /\ req[lastReq.r].status = 429

\* C4: every denied request is answered 429 with a message that names the
\* maximum 10 and a number of minutes m that is the least integer with
\* now + m minutes >= resetTime.
C4_RetryMinutes ==
  lastReq.ran /\ ~ lastReq.permit =>
    LET answer == req[lastReq.r]
        resetAt == requestTracker[lastReq.ip].resetTime
    IN /\ answer.status = 429
       /\ answer.errmsg = "Rate limit exceeded"
       /\ answer.max = 10
       /\ now + answer.minutes * 60000 >= resetAt
       /\ now + (answer.minutes - 1) * 60000 < resetAt

C4_Witness ==
  /\ lastReq.ran /\ ~ lastReq.permit
  /\ (requestTracker[lastReq.ip].resetTime - now) % 60000 # 0
  /\ req[lastReq.r].minutes = 60

(***************************************************************************)
(* Properties of the cache, the odds fetcher and the handler, checked      *)
(* under Spec.                                                             *)
(***************************************************************************)
EnumeratedSports == {"nba", "nhl", "cbb", "nfl", "mlb"}
UpperCaseOf == {<<"nba", "NBA">>, <<"nhl", "NHL">>, <<"cbb", "CBB">>,
                <<"nfl", "NFL">>, <<"mlb", "MLB">>}

\* C5: getCached(key) returns the value of the latest setCache(key, value)
\* while less than 5 minutes have passed since that call, the moment of the
\* call included, and null from 5 minutes on, until the next setCache.
C5_CacheLifetime ==
  \A sport \in SportInputs :
    LET key == CacheKey(sport)
    IN getCached(cache, key, now) =
         IF key \in DOMAIN lastSet /\ now - lastSet[key].at < 5 * 60 * 1000
         THEN lastSet[key].value
         ELSE JsonNull

C5_Witness ==
  \E key \in DOMAIN lastSet :
    /\ now - lastSet[key].at = 5 * 60 * 1000
    /\ lastSet[key].value = JsonArray(1)
    /\ getCached(cache, key, now) = JsonNull

\* C6: a permitted request whose sport is none of the five enumerated codes
\* fails at once with 'Invalid sport': it is answered 500, and no request
\* to the provider, no oracle call, no cache read and no cache write is
\* made for it.
C6_UnknownSportFailsFast ==
  \A r \in Slots :
    req[r].pc # "idle" /\ req[r].permitted /\ req[r].sport \notin EnumeratedSports =>
      /\ req[r].pc = "done"
      /\ req[r].status = 500
      /\ req[r].errmsg = "Invalid sport"
      /\ req[r].gets = 0
      /\ req[r].oracle = 0
      /\ req[r].cacheReads = 0
      /\ req[r].cacheWrites = 0

\* C7: when the cache holds an entry younger than 5 minutes under the key of
\* the requested sport, whatever its value, fetchOddsData returns that
\* value, makes no request to the provider and leaves the cache as it is.
C7_HitIsServedFromCache ==
  [][ \A r \in Slots :
        ( /\ lastReq'.ran /\ lastReq'.r = r /\ lastReq'.permit
          /\ CacheKey(req'[r].sport) \in DOMAIN cache
          /\ now - cache[CacheKey(req'[r].sport)].timestamp < 5 * 60 * 1000 )
        => /\ req'[r].gets = 0
           /\ req'[r].hasOdds
           /\ req'[r].odds = cache[CacheKey(req'[r].sport)].data
           /\ cache' = cache ]_vars

\* C8: a permitted request for an enumerated sport whose odds data, fetched
\* or cached, is a list of zero games is answered 200 with games = [], a
\* lastUpdated and the sport in upper case, without any oracle call or
\* insert.
C8_NoGamesShortCircuit ==
  \A r \in Slots :
    ( /\ req[r].permitted /\ req[r].sport \in EnumeratedSports
      /\ req[r].hasOdds /\ req[r].odds = JsonArray(0) )
    => /\ req[r].pc = "done"
       /\ req[r].status = 200
       /\ req[r].responses = 1
       /\ req[r].games = 0
       /\ req[r].lastUpdated
       /\ <<req[r].sport, req[r].sportOut>> \in UpperCaseOf
       /\ req[r].oracle = 0
       /\ req[r].inserts = 0
       /\ req[r].saved = 0

C8_Witness ==
  \E r \in Slots :
    /\ req[r].permitted /\ req[r].sport = "nba"
    /\ req[r].hasOdds /\ req[r].odds = JsonArray(0)
    /\ req[r].cacheReads = 1 /\ req[r].gets = 0
    /\ req[r].status = 200

\* C9: every 200 answer carries a games list, a lastUpdated and the sport
\* in upper case; an oracle answer without one of them is not returned as a
\* success.
C9_SuccessShape ==
  \A r \in Slots :
    req[r].status = 200 =>
      /\ req[r].games >= 0
      /\ req[r].lastUpdated
      /\ req[r].sportOut = ToUpperCase(req[r].sport)

\* C10: a permitted request that fails after the limiter (no entry for the
\* sport, a provider status that is not a success, a failed oracle call, an
\* oracle text without a brace span or with a span that is not JSON, and
\* likewise a network failure or a body that is not JSON) gets exactly one
\* response, 500 with an error message, and nothing is inserted for it.
C10_FailureAnswered500 ==
  \A r \in Slots :
    req[r].permitted /\ (SportLookup(req[r].sport) = Undefined \/ req[r].fault # "") =>
      /\ req[r].pc = "done"
      /\ req[r].status = 500
      /\ req[r].responses = 1
      /\ req[r].errmsg # ""
      /\ req[r].inserts = 0
      /\ req[r].saved = 0

C10_Witness ==
  \E r \in Slots :
    /\ req[r].permitted
    /\ req[r].fault = "syntax"
    /\ req[r].oracle = 1
    /\ req[r].status = 500

\* C11: once the oracle text is parsed into a result with a games list, the
\* request ends with 200 and that result whichever inserts fail, all of
\* them included, and an insert is attempted for every game whatever
\* happened to the earlier ones.
C11_SaveFailuresTolerated ==
  \A r \in Slots :
    req[r].data.ok /\ req[r].data.games >= 0 =>
      /\ req[r].pc \in {"save", "done"}
      /\ req[r].pc = "save" =>
           /\ req[r].idx <= req[r].data.games
           /\ req[r].inserts = req[r].idx
           /\ req[r].responses = 0
      /\ req[r].pc = "done" =>
           /\ req[r].status = 200
           /\ req[r].responses = 1
           /\ req[r].games = req[r].data.games
           /\ req[r].lastUpdated = req[r].data.lastUpdated
           /\ req[r].inserts = req[r].data.games
           /\ req[r].saved <= req[r].inserts

C11_Witness ==
  \E r \in Slots :
    /\ req[r].data.ok /\ req[r].data.games = 2
    /\ req[r].pc = "done"
    /\ req[r].inserts = 2 /\ req[r].saved = 0
    /\ req[r].status = 200 /\ req[r].games = 2

\* C12: one request makes at most one GET to the provider, at most one
\* oracle call and at most one insert per returned game; after a failed
\* call nothing more is called; the GET, if made, comes before the oracle
\* call, and the oracle call before every insert.
C12_EachCallAtMostOnce ==
  \A r \in Slots :
    /\ req[r].gets <= 1
    /\ req[r].oracle <= 1
    /\ req[r].inserts <= (IF req[r].data.ok THEN GamesLen(req[r].data.games) ELSE 0)
    /\ req[r].pc \in {"fetch", "json"} => req[r].gets = 1 /\ req[r].oracle = 0 /\ req[r].inserts = 0
    /\ req[r].pc = "oracle" => req[r].oracle = 1 /\ req[r].inserts = 0
    /\ req[r].inserts > 0 => req[r].oracle = 1
    /\ req[r].fault \in {"status", "network", "body"} =>
         req[r].pc = "done" /\ req[r].gets = 1 /\ req[r].oracle = 0 /\ req[r].inserts = 0
    /\ req[r].fault \in {"oracle", "nospan", "syntax"} =>
         req[r].pc = "done" /\ req[r].oracle = 1 /\ req[r].inserts = 0
    /\ req[r].pc = "save" => req[r].inserts = req[r].idx

C12_Witness ==
  \E r \in Slots :
    /\ req[r].pc = "done" /\ req[r].status = 200
    /\ req[r].gets = 1 /\ req[r].oracle = 1
    /\ req[r].inserts = 2 /\ req[r].saved = 1

\* C13: a well-formed JSON object extracts to the same result from its bare
\* text and from the text inside a code fence, with or without the tag,
\* also when its strings hold fence markers or braces.
C13_FencedEqualsPlain ==
  pure.stage = "both" => pure.fenced = pure.plain

\* C14: whatever the interleaving of the requests of one client, every
\* request the limiter lets through is counted (the stored count is the
\* number of requests let through in the client's window) and no window
\* lets more than 10 through.
C14_AtomicCheckAndIncrement ==
  \A ip \in DOMAIN win :
    /\ ip \in DOMAIN requestTracker
    /\ win[ip].p <= maxRequests
    /\ requestTracker[ip].count = win[ip].p
    /\ requestTracker[ip].resetTime = win[ip].start + hourInMs

\* The eleventh request of a window is turned away while an earlier request
\* of the same client is still waiting for the provider.
C14_Witness ==
  /\ lastReq.ran /\ ~ lastReq.permit
  /\ win[lastReq.ip].n = maxRequests + 1
  /\ \E r \in Slots : req[r].ip = lastReq.ip /\ req[r].pc \in {"fetch", "json"}

(***************************************************************************)
(* Properties of the game formatter, checked under SpecFormat.             *)
(***************************************************************************)

\* C15: the formatted list has min(n, 10) entries, and the i-th entry is
\* the formatted i-th game of the odds list.
C15_FirstTenInOrder ==
  pure.stage = "formatted" =>
    /\ Len(pure.formatted) = Min(Len(pure.odds), 10)
    /\ \A i \in 1 .. Len(pure.formatted) :
         /\ pure.formatted[i] = FormatGame(pure.odds[i])
         /\ pure.formatted[i].homeTeam = pure.odds[i].home_team
         /\ pure.formatted[i].awayTeam = pure.odds[i].away_team

\* An odds list of eleven games, not all alike, was cut to ten.
C15_Witness ==
  /\ pure.stage = "formatted"
  /\ Len(pure.odds) = 11
  /\ pure.odds[1] # pure.odds[2]
  /\ pure.odds[10] # pure.odds[11]
  /\ Len(pure.formatted) = 10

\* The value the claim expects for a field of the provider record.
Shown(value) == IF value = <<>> THEN NotAvailable ELSE Number(value[1])

\* C16: the formatted spread, total and moneylines are the values of the
\* provider record whenever they are present, 0 included, and the sentinel
\* only when something on the way to them is missing.
C16_PresentValuesShown ==
  pure.stage = "formatted" =>
    \A i \in 1 .. Len(pure.formatted) :
      LET game == pure.odds[i]
          out == pure.formatted[i]
      IN /\ out.spread = Shown(SpreadOf(game))
         /\ out.total = Shown(TotalOf(game))
         /\ out.moneylineHome = Shown(MoneylineOf(game, game.home_team))
         /\ out.moneylineAway = Shown(MoneylineOf(game, game.away_team))

(***************************************************************************)
(* Order of the stages and effects on the limiter's map.                   *)
(***************************************************************************)

\* C17: a request that is denied has read and written no cache entry, sent
\* no provider request, made no oracle call and inserted nothing, and the
\* step that denies it leaves the cache alone; a request that is let
\* through counts as one more request of its window, and no later step of
\* any request, success or failure, changes the limiter's map.
C17_LimiterFirst ==
  [][ /\ \A r \in Slots :
           req'[r].status = 429 =>
             /\ req'[r].pc = "done" /\ ~ req'[r].permitted
             /\ req'[r].cacheReads = 0 /\ req'[r].cacheWrites = 0
             /\ req'[r].gets = 0 /\ req'[r].oracle = 0
             /\ req'[r].inserts = 0 /\ req'[r].saved = 0
      /\ lastReq'.ran /\ ~ lastReq'.permit =>
           /\ req'[lastReq'.r].status = 429
           /\ cache' = cache /\ lastSet' = lastSet
      /\ lastReq'.ran /\ lastReq'.permit =>
           /\ req'[lastReq'.r].status # 429
           /\ requestTracker'[lastReq'.ip].count =
                IF lastReq'.had /\ now <= lastReq'.preReset
                THEN lastReq'.preCount + 1 ELSE 1
           /\ requestTracker'[lastReq'.ip].count = win'[lastReq'.ip].p
      /\ ~ lastReq'.ran => requestTracker' = requestTracker
    ]_vars

\* A request for a sport that has a cache entry was denied.
C17_Witness ==
  /\ lastReq.ran /\ ~ lastReq.permit
  /\ req[lastReq.r].status = 429
  /\ req[lastReq.r].sport = "nba"
  /\ CacheKey("nba") \in DOMAIN cache

\* C18: a denied request leaves its client's entry as it was; a request let
\* through inside an open window adds one to count and keeps resetTime;
\* resetTime changes only when the client is first seen or when the request
\* comes after the end of the window, and then it is one hour after the
\* request; the entries of every other client stay as they were.
C18_WindowNeverExtended ==
  [][ lastReq'.ran =>
        LET ip == lastReq'.ip
            before == requestTracker
            after == requestTracker'
        IN /\ \A k \in DOMAIN before \ {ip} : k \in DOMAIN after /\ after[k] = before[k]
           /\ DOMAIN after = DOMAIN before \cup {ip}
           /\ ~ lastReq'.permit => ip \in DOMAIN before /\ after[ip] = before[ip]
           /\ lastReq'.permit /\ ip \in DOMAIN before /\ now <= before[ip].resetTime =>
                /\ after[ip].count = before[ip].count + 1
                /\ after[ip].resetTime = before[ip].resetTime
           /\ ip \in DOMAIN before /\ after[ip].resetTime # before[ip].resetTime =>
                /\ now > before[ip].resetTime
                /\ after[ip] = [count |-> 1, resetTime |-> now + hourInMs]
           /\ ip \notin DOMAIN before =>
                after[ip] = [count |-> 1, resetTime |-> now + hourInMs]
    ]_vars

\* A request was denied some time into the window while the other client
\* has an entry too.
C18_Witness ==
  /\ lastReq.ran /\ ~ lastReq.permit
  /\ DOMAIN requestTracker = ClientKeys
  /\ now > win[lastReq.ip].start
  /\ requestTracker[lastReq.ip].resetTime = win[lastReq.ip].start + hourInMs

\* C19: every entry of the limiter's map has a count from 1 to 10, and a
\* client that has an entry keeps one: no step removes a key.
C19_CountRangeKeysKept ==
  [][ /\ \A k \in DOMAIN requestTracker' :
           1 <= requestTracker'[k].count /\ requestTracker'[k].count <= 10
      /\ DOMAIN requestTracker \subseteq DOMAIN requestTracker'
      /\ DOMAIN requestTracker' = DOMAIN win'
    ]_vars

\* Both clients have an entry, one at the full count, and a client came
\* back after its window was over.
C19_Witness ==
  /\ DOMAIN requestTracker = ClientKeys
  /\ \E k \in ClientKeys : requestTracker[k].count = 10
  /\ \E k \in ClientKeys : win[k].k >= 2

(***************************************************************************)
(* Concurrent requests for one sport, checked under SpecConcurrent.        *)
(***************************************************************************)

\* C20: of the requests for one sport, at most one is waiting for the odds
\* provider at any time: a request that starts while the fetch of another
\* request for the same sport is in flight sends no GET of its own.
C20_OneFetchInFlight ==
  \A r1, r2 \in Slots :
    /\ r1 # r2
    /\ req[r1].sport = req[r2].sport
    /\ req[r1].pc \in {"fetch", "json"} /\ req[r1].gets = 1
    /\ req[r2].pc \in {"fetch", "json"}
    => req[r2].gets = 0

====
